---- MODULE Spec2Model ----
(***************************************************************************)
(* minigrep (src/src/lib.rs): Config::build, run, search and               *)
(* search_case_insensitive.                                                *)
(*                                                                         *)
(* A string is a sequence of characters.  A character is named by a TLA+   *)
(* string: "a" and "A" are the two cases of one letter, "Sigma" is the     *)
(* Greek capital sigma (U+03A3), "sigma" the small sigma (U+03C3),         *)
(* "fsigma" the small final sigma (U+03C2), "LF" is '\n' and "CR" is '\r'. *)
(***************************************************************************)
EXTENDS Integers, Sequences, FiniteSets, TLC

VARIABLES
    pc,          \* position of the caller: start, built, build_err, search, print, done
    args,        \* the process arguments handed to Config::build
    env,         \* the IGNORE_CASE entry of the process environment
    file,        \* what fs::read_to_string answers for config.file_path
    build_ret,   \* the Result returned by Config::build
    config,      \* the Config built
    contents,    \* run: let contents
    results,     \* run: let results
    next_line,   \* run: position of the for loop in results
    stdout,      \* the records printed by println!
    run_ret,     \* the Result returned by run
    reads,       \* number of calls of fs::read_to_string
    calls,       \* the search functions run has invoked, in order
    query,       \* direct call: the query argument
    text,        \* direct call: the contents argument
    ran,         \* direct call: which of the two search functions have returned
    sensitive,   \* direct call: the value returned by search
    insensitive  \* direct call: the value returned by search_case_insensitive

vars == <<pc, args, env, file, build_ret, config, contents, results, next_line,
          stdout, run_ret, reads, calls, query, text, ran, sensitive, insensitive>>

run_vars == <<pc, args, env, file, build_ret, config, contents, results, next_line,
              stdout, run_ret, reads, calls>>

call_vars == <<query, text, ran, sensitive, insensitive>>

-----------------------------------------------------------------------------
(* Bounds *)

MaxContentsLen == 4
MaxQueryLen == 2
MaxArgs == 4
MaxFileLen == 3

-----------------------------------------------------------------------------
(* Characters and strings *)

LF == "LF"
CR == "CR"

\* The characters the inputs are drawn from.
Chars == {"a", "A", "Sigma", LF, CR}

RECURSIVE StringsOfLen(_, _)
StringsOfLen(S, n) ==
    IF n = 0 THEN {<<>>}
    ELSE {Append(s, c) : s \in StringsOfLen(S, n - 1), c \in S}

Strings(S, n) == UNION {StringsOfLen(S, k) : k \in 0..n}

Reverse(s) == [i \in 1..Len(s) |-> s[Len(s) + 1 - i]]

-----------------------------------------------------------------------------
(* str::lines, str::contains and str::to_lowercase, as lib.rs uses them *)

strip_suffix(s, c) ==
    IF Len(s) > 0 /\ s[Len(s)] = c
    THEN [some |-> TRUE, rest |-> SubSeq(s, 1, Len(s) - 1)]
    ELSE [some |-> FALSE, rest |-> s]

\* split_inclusive('\n'): every piece but the last ends with its line feed;
\* no piece is empty.
RECURSIVE split_inclusive(_, _)
split_inclusive(s, cur) ==
    IF s = <<>> THEN (IF cur = <<>> THEN <<>> ELSE <<cur>>)
    ELSE IF Head(s) = LF THEN <<Append(cur, LF)>> \o split_inclusive(Tail(s), <<>>)
    ELSE split_inclusive(Tail(s), Append(cur, Head(s)))

\* The closure of str::lines: strip one "\n", and only then one "\r".
LinesMapKeepCR(line) == strip_suffix(line, LF).rest

LinesMap(line) ==
    LET a == strip_suffix(line, LF) IN
    IF ~a.some THEN line
    ELSE strip_suffix(a.rest, CR).rest

linesTrailingEmpty(s) ==
    LET pieces == split_inclusive(s, <<>>)
        ls == [i \in 1..Len(pieces) |-> LinesMap(pieces[i])]
    IN  IF s = <<>> \/ s[Len(s)] = LF THEN Append(ls, <<>>) ELSE ls

lines(s) ==
    LET pieces == split_inclusive(s, <<>>)
    IN  [i \in 1..Len(pieces) |-> LinesMap(pieces[i])]

\* haystack.contains(needle): needle occurs at some offset of haystack.
contains(haystack, needle) ==
    \E off \in 0..(Len(haystack) - Len(needle)) :
        SubSeq(haystack, off + 1, off + Len(needle)) = needle

\* core::unicode properties of the characters of the model.
Cased == {"a", "A", "Sigma", "sigma", "fsigma"}
Case_Ignorable == {}

\* core::unicode::conversions::to_lower
to_lower(c) == IF c = "A" THEN "a" ELSE c

RECURSIVE skip_while_ignorable(_)
skip_while_ignorable(s) ==
    IF s # <<>> /\ Head(s) \in Case_Ignorable THEN skip_while_ignorable(Tail(s)) ELSE s

case_ignorable_then_cased(s) ==
    LET r == skip_while_ignorable(s) IN r # <<>> /\ Head(r) \in Cased

\* The capital sigma at position i of from maps to the final sigma at the end
\* of a word and to the small sigma elsewhere.
map_uppercase_sigma(from, i) ==
    LET is_word_final ==
            /\ case_ignorable_then_cased(Reverse(SubSeq(from, 1, i - 1)))
            /\ ~case_ignorable_then_cased(SubSeq(from, i + 1, Len(from)))
    IN  IF is_word_final THEN "fsigma" ELSE "sigma"

to_lowercase(s) ==
    [i \in 1..Len(s) |->
        IF s[i] = "Sigma" THEN map_uppercase_sigma(s, i) ELSE to_lower(s[i])]

-----------------------------------------------------------------------------
(* search and search_case_insensitive *)

RECURSIVE search_loop(_, _, _)
search_loop(q, ls, acc) ==
    IF ls = <<>> THEN acc
    ELSE search_loop(q, Tail(ls),
                     IF contains(Head(ls), q) THEN Append(acc, Head(ls)) ELSE acc)

RECURSIVE search_loop_prepend(_, _, _)
search_loop_prepend(q, ls, acc) ==
    IF ls = <<>> THEN acc
    ELSE search_loop_prepend(q, Tail(ls),
                     IF contains(Head(ls), q) THEN <<Head(ls)>> \o acc ELSE acc)

searchReversed(q, c) == search_loop_prepend(q, lines(c), <<>>)

\* The containment test is made on the whole contents instead of the line.
searchWholeContents(q, c) ==
    IF contains(c, q) THEN lines(c) ELSE <<>>

search(q, c) == search_loop(q, lines(c), <<>>)

RECURSIVE search_ci_loop(_, _, _)
search_ci_loop(q, ls, acc) ==
    IF ls = <<>> THEN acc
    ELSE search_ci_loop(q, Tail(ls),
                        IF contains(to_lowercase(Head(ls)), q)
                        THEN Append(acc, Head(ls)) ELSE acc)

RECURSIVE search_ci_loop_lowered(_, _, _)
search_ci_loop_lowered(q, ls, acc) ==
    IF ls = <<>> THEN acc
    ELSE search_ci_loop_lowered(q, Tail(ls),
                        IF contains(to_lowercase(Head(ls)), q)
                        THEN Append(acc, to_lowercase(Head(ls))) ELSE acc)

searchCaseInsensitiveLowered(q, c) ==
    search_ci_loop_lowered(to_lowercase(q), lines(c), <<>>)

search_case_insensitive(q, c) == search_ci_loop(to_lowercase(q), lines(c), <<>>)

-----------------------------------------------------------------------------
(* Direct calls of the two search functions *)

InitCall ==
    /\ query \in Strings(Chars, MaxQueryLen)
    /\ text \in Strings(Chars, MaxContentsLen)
    /\ ran = {}
    /\ sensitive = <<>>
    /\ insensitive = <<>>
    /\ pc = "start" /\ args = <<>> /\ env = [present |-> FALSE, value |-> <<>>]
    /\ file = [ok |-> FALSE, err |-> "NotFound", text |-> <<>>]
    /\ build_ret = "none" /\ config = [query |-> <<>>, file_path |-> <<>>, ignore_case |-> FALSE]
    /\ contents = <<>> /\ results = <<>> /\ next_line = 1 /\ stdout = <<>>
    /\ run_ret = "none" /\ reads = 0 /\ calls = <<>>

CallSearch ==
    /\ "search" \notin ran
    /\ sensitive' = search(query, text)
    /\ ran' = ran \cup {"search"}
    /\ UNCHANGED <<query, text, insensitive, run_vars>>

CallSearchCaseInsensitive ==
    /\ "search_case_insensitive" \notin ran
    /\ insensitive' = search_case_insensitive(query, text)
    /\ ran' = ran \cup {"search_case_insensitive"}
    /\ UNCHANGED <<query, text, sensitive, run_vars>>

NextCall == CallSearch \/ CallSearchCaseInsensitive

SpecCall == InitCall /\ [][NextCall]_vars

-----------------------------------------------------------------------------
(* Config::build *)

\* env::var(key): Err(NotPresent) when the variable is unset, Err(NotUnicode)
\* when its value is not valid Unicode, Ok(value) otherwise.  The value is a
\* sequence of bytes; the bytes of the model are ASCII or 0xFF, and no UTF-8
\* encoding holds 0xFF.
env_var(e) ==
    IF ~e.present THEN [ok |-> FALSE, err |-> "NotPresent"]
    ELSE IF \A i \in 1..Len(e.value) : e.value[i] < 128
         THEN [ok |-> TRUE, err |-> "none"]
         ELSE [ok |-> FALSE, err |-> "NotUnicode"]

NoConfig == [query |-> <<>>, file_path |-> <<>>, ignore_case |-> FALSE]

\* args[i] of the code is a[i + 1].
buildOffByOne(a, e) ==
    IF Len(a) <= 3
    THEN [ret |-> "not enough arguments", config |-> NoConfig]
    ELSE [ret |-> "Ok",
          config |-> [query |-> a[2], file_path |-> a[3], ignore_case |-> env_var(e).ok]]

build(a, e) ==
    IF Len(a) < 3
    THEN [ret |-> "not enough arguments", config |-> NoConfig]
    ELSE [ret |-> "Ok",
          config |-> [query |-> a[2], file_path |-> a[3], ignore_case |-> env_var(e).ok]]

-----------------------------------------------------------------------------
(* The program: Config::build, then run on the Config built *)

ArgValues == {<<>>, <<"a">>, <<"A">>}
FileChars == {"a", "A", LF}
ReadErrors == {"NotFound", "PermissionDenied", "InvalidData", "Other"}
EnvValues == {<<>>, <<49>>, <<255>>}

ReadFails(kind) == [ok |-> FALSE, err |-> kind, text |-> <<>>]
ReadGives(t) == [ok |-> TRUE, err |-> "none", text |-> t]

Init ==
    /\ pc = "start"
    /\ args \in Strings(ArgValues, MaxArgs)
    /\ env \in {[present |-> FALSE, value |-> <<>>]}
               \cup {[present |-> TRUE, value |-> v] : v \in EnvValues}
    /\ file \in {ReadFails(k) : k \in ReadErrors}
                \cup {ReadGives(t) : t \in Strings(FileChars, MaxFileLen)}
    \* no file has the empty path
    /\ (Len(args) >= 3 /\ args[3] = <<>>) => file = ReadFails("NotFound")
    /\ build_ret = "none"
    /\ config = NoConfig
    /\ contents = <<>>
    /\ results = <<>>
    /\ next_line = 1
    /\ stdout = <<>>
    /\ run_ret = "none"
    /\ reads = 0
    /\ calls = <<>>
    /\ query = <<>> /\ text = <<>> /\ ran = {} /\ sensitive = <<>> /\ insensitive = <<>>

Build ==
    /\ pc = "start"
    /\ LET r == build(args, env) IN
        /\ build_ret' = r.ret
        /\ config' = r.config
        /\ pc' = IF r.ret = "Ok" THEN "built" ELSE "build_err"
    /\ UNCHANGED <<args, env, file, contents, results, next_line, stdout, run_ret,
                   reads, calls, call_vars>>

\* A failed read is taken for the empty contents.
ReadFileOrEmpty ==
    /\ pc = "built"
    /\ reads' = reads + 1
    /\ contents' = file.text
    /\ pc' = "search"
    /\ UNCHANGED <<args, env, file, build_ret, config, results, next_line, stdout,
                   run_ret, calls, call_vars>>

\* let contents = fs::read_to_string(config.file_path)?;
ReadFile ==
    /\ pc = "built"
    /\ reads' = reads + 1
    /\ IF file.ok
       THEN /\ contents' = file.text
            /\ pc' = "search"
            /\ UNCHANGED run_ret
       ELSE /\ run_ret' = file.err
            /\ pc' = "done"
            /\ UNCHANGED contents
    /\ UNCHANGED <<args, env, file, build_ret, config, results, next_line, stdout,
                   calls, call_vars>>

\* The two branches of the if exchanged.
DispatchSwapped ==
    /\ pc = "search"
    /\ IF ~config.ignore_case
       THEN /\ results' = search_case_insensitive(config.query, contents)
            /\ calls' = Append(calls, "search_case_insensitive")
       ELSE /\ results' = search(config.query, contents)
            /\ calls' = Append(calls, "search")
    /\ next_line' = 1
    /\ pc' = "print"
    /\ UNCHANGED <<args, env, file, build_ret, config, contents, stdout, run_ret,
                   reads, call_vars>>

\* let results = if config.ignore_case { ... } else { ... };
Dispatch ==
    /\ pc = "search"
    /\ IF config.ignore_case
       THEN /\ results' = search_case_insensitive(config.query, contents)
            /\ calls' = Append(calls, "search_case_insensitive")
       ELSE /\ results' = search(config.query, contents)
            /\ calls' = Append(calls, "search")
    /\ next_line' = 1
    /\ pc' = "print"
    /\ UNCHANGED <<args, env, file, build_ret, config, contents, stdout, run_ret,
                   reads, call_vars>>

\* for line in results { println!("{line}"); }
PrintLine ==
    /\ pc = "print"
    /\ next_line <= Len(results)
    /\ stdout' = Append(stdout, results[next_line])
    /\ next_line' = next_line + 1
    /\ UNCHANGED <<pc, args, env, file, build_ret, config, contents, results,
                   run_ret, reads, calls, call_vars>>

\* Ok(())
Return ==
    /\ pc = "print"
    /\ next_line > Len(results)
    /\ run_ret' = "Ok"
    /\ pc' = "done"
    /\ UNCHANGED <<args, env, file, build_ret, config, contents, results, next_line,
                   stdout, reads, calls, call_vars>>

Next == Build \/ ReadFile \/ Dispatch \/ PrintLine \/ Return

Spec == Init /\ [][Next]_vars

-----------------------------------------------------------------------------
(* The lines of a text, stated by positions: the k-th line runs from just  *)
(* after the (k-1)-th line feed up to the k-th line feed, without that     *)
(* line feed and without a carriage return immediately before it; text     *)
(* after the last line feed, when there is any, is the last line.          *)

LFPositions(c) == {i \in 1..Len(c) : c[i] = LF}

NthLF(c, k) == CHOOSE p \in LFPositions(c) : Cardinality({r \in LFPositions(c) : r < p}) = k - 1

NumLines(c) ==
    Cardinality(LFPositions(c)) + (IF Len(c) > 0 /\ c[Len(c)] # LF THEN 1 ELSE 0)

LineStart(c, k) == IF k = 1 THEN 1 ELSE NthLF(c, k - 1) + 1

LineEnd(c, k) ==
    IF k <= Cardinality(LFPositions(c))
    THEN LET p == NthLF(c, k) IN
         IF p - 1 >= LineStart(c, k) /\ c[p - 1] = CR THEN p - 2 ELSE p - 1
    ELSE Len(c)

LineAt(c, k) == SubSeq(c, LineStart(c, k), LineEnd(c, k))

LinesOf(c) == [k \in 1..NumLines(c) |-> LineAt(c, k)]

\* The k-th line of c is followed by a carriage return and a line feed.
EndsWithCRLF(c, k) ==
    /\ k <= Cardinality(LFPositions(c))
    /\ LET p == NthLF(c, k) IN p - 1 >= LineStart(c, k) /\ c[p - 1] = CR

Count(seq, x) == Cardinality({i \in 1..Len(seq) : seq[i] = x})

RECURSIVE IsSubsequence(_, _)
IsSubsequence(r, l) ==
    IF r = <<>> THEN TRUE
    ELSE IF l = <<>> THEN FALSE
    ELSE IF Head(r) = Head(l) THEN IsSubsequence(Tail(r), Tail(l))
    ELSE IsSubsequence(r, Tail(l))

Range(seq) == {seq[i] : i \in 1..Len(seq)}

SearchReturned == "search" \in ran
InsensitiveReturned == "search_case_insensitive" \in ran

-----------------------------------------------------------------------------
(* Claims about the two search functions *)

\* C1: search(query, contents) returns exactly the lines of contents that
\* contain query as an exact substring: every returned line contains query,
\* the returned lines are lines of contents in their original order, and a
\* line occurring k times in contents is returned k times if it contains
\* query and not at all otherwise.
C1_SearchExact ==
    SearchReturned =>
        LET ls == LinesOf(text) IN
        /\ \A i \in 1..Len(sensitive) : contains(sensitive[i], query)
        /\ IsSubsequence(sensitive, ls)
        /\ \A l \in Range(ls) \cup Range(sensitive) :
               Count(sensitive, l) = IF contains(l, query) THEN Count(ls, l) ELSE 0

\* C1 witness: a matching line occurs twice among three lines and is
\* returned twice, a non-matching line between them is left out.
C1_Witness ==
    /\ SearchReturned
    /\ Len(query) > 0
    /\ Len(LinesOf(text)) >= 3
    /\ Len(sensitive) = 2
    /\ sensitive[1] = sensitive[2]

\* C2: every line occurrence returned by search is also returned by
\* search_case_insensitive (multiset inclusion, line by line).
C2_InsensitiveSuperset ==
    (SearchReturned /\ InsensitiveReturned) =>
        \A l \in Range(sensitive) : Count(sensitive, l) <= Count(insensitive, l)

\* C3: search_case_insensitive returns, in original order, exactly the lines
\* of contents whose lowercased form contains the lowercased query, each as
\* the original line text and not as its lowercased copy.
C3_InsensitiveExact ==
    InsensitiveReturned =>
        insensitive = SelectSeq(LinesOf(text),
                          LAMBDA l : contains(to_lowercase(l), to_lowercase(query)))

\* C3 witness: a query with an upper-case letter matches a line that differs
\* from its lowercased form, and that line is returned with its casing.
C3_Witness ==
    /\ InsensitiveReturned
    /\ query # to_lowercase(query)
    /\ \E i \in 1..Len(insensitive) :
           /\ insensitive[i] # to_lowercase(insensitive[i])
           /\ ~contains(insensitive[i], query)

\* C8: with the empty query both functions return every line of contents,
\* unchanged and in order: the lines split at line feeds, a carriage return
\* immediately before a line feed left out, and no trailing empty line when
\* contents ends in a terminator.
C8_EmptyQueryAllLines ==
    query = <<>> =>
        /\ SearchReturned => sensitive = LinesOf(text)
        /\ InsensitiveReturned => insensitive = LinesOf(text)
        /\ (SearchReturned /\ text # <<>> /\ text[Len(text)] = LF) =>
               Len(sensitive) = Cardinality(LFPositions(text))

\* C8 witness: contents is "a\r\n\n": both functions return the two lines
\* "a" and "", the first without its carriage return, and no third line
\* after the final terminator.
C8_Witness ==
    /\ query = <<>>
    /\ SearchReturned /\ InsensitiveReturned
    /\ text = <<"a", CR, LF, LF>>
    /\ sensitive = <<<<"a">>, <<>>>>
    /\ insensitive = <<<<"a">>, <<>>>>

\* C9: empty contents yields the empty result for every query, the empty
\* query included, from both functions.
C9_EmptyContents ==
    text = <<>> =>
        /\ SearchReturned => sensitive = <<>>
        /\ InsensitiveReturned => insensitive = <<>>

\* C9 witness: both functions have returned for the empty query over the
\* empty contents.
C9_Witness ==
    /\ text = <<>> /\ query = <<>>
    /\ SearchReturned /\ InsensitiveReturned
    /\ sensitive = <<>> /\ insensitive = <<>>

\* A query containing a line feed gets the empty result from both functions.
LineFeedQueryNeverMatches ==
    (\E i \in 1..Len(query) : query[i] = LF) =>
        /\ SearchReturned => sensitive = <<>>
        /\ InsensitiveReturned => insensitive = <<>>

\* C10 as stated: a query containing a line feed gets the empty result, and
\* a query ending in a carriage return matches no line that is followed by a
\* carriage-return/line-feed terminator.
C10_Original ==
    /\ LineFeedQueryNeverMatches
    /\ (SearchReturned /\ query # <<>> /\ query[Len(query)] = CR) =>
           \A k \in 1..NumLines(text) :
               EndsWithCRLF(text, k) => LineAt(text, k) \notin Range(sensitive)

\* C10 amended: a query containing a line feed gets the empty result, and a
\* query ending in a carriage return never matches through the carriage
\* return of a terminator: a line followed by a carriage-return/line-feed
\* terminator is returned only if its own text, the terminator's carriage
\* return excluded, contains the query (for search_case_insensitive: only if
\* its lowercased text contains the lowercased query).
C10_NoMatchAcrossTerminator ==
    /\ LineFeedQueryNeverMatches
    /\ (query # <<>> /\ query[Len(query)] = CR) =>
           \A k \in 1..NumLines(text) :
               EndsWithCRLF(text, k) =>
                   LET l == LineAt(text, k) IN
                   /\ (SearchReturned /\ ~contains(l, query)) =>
                          l \notin Range(sensitive)
                   /\ (InsensitiveReturned
                         /\ ~contains(to_lowercase(l), to_lowercase(query))) =>
                          l \notin Range(insensitive)

\* C10 witness: the query "a\r" occurs in the contents "a\r\n" as a whole
\* and neither function returns the line "a".
C10_Witness ==
    /\ query = <<"a", CR>>
    /\ text = <<"a", CR, LF>>
    /\ SearchReturned /\ InsensitiveReturned
    /\ sensitive = <<>> /\ insensitive = <<>>

-----------------------------------------------------------------------------
(* Claims about Config::build and run *)

\* C4: Config::build fails with the insufficient-arguments error if and only
\* if args has fewer than 3 elements; with 3 or more it succeeds with
\* query = args[1] and file_path = args[2], whatever the arguments hold and
\* whatever follows them.
C4_BuildArguments ==
    pc # "start" =>
        /\ (build_ret = "not enough arguments") <=> (Len(args) < 3)
        /\ Len(args) >= 3 =>
               /\ build_ret = "Ok"
               /\ config.query = args[2]
               /\ config.file_path = args[3]

\* C4 witness: four arguments, the query and the path both empty, build
\* succeeded.
C4_Witness ==
    /\ pc = "built"
    /\ Len(args) = 4
    /\ args[2] = <<>> /\ args[3] = <<>>
    /\ build_ret = "Ok"
    /\ config.query = <<>> /\ config.file_path = <<>>

\* C5: in every Config built, ignore_case is true if and only if IGNORE_CASE
\* is present in the environment, whatever its value.
C5_IgnoreCaseIffPresent ==
    build_ret = "Ok" => (config.ignore_case <=> env.present)

\* C6: when the file cannot be read, run returns the read error after exactly
\* one read attempt, invokes neither search function and prints nothing; and
\* in every execution no line is printed before the read has succeeded.
C6_ReadFailure ==
    /\ reads <= 1
    /\ (pc = "done" /\ ~file.ok) =>
           /\ run_ret = file.err
           /\ reads = 1
           /\ calls = <<>>
           /\ stdout = <<>>
    /\ (stdout # <<>> \/ calls # <<>>) =>
           /\ file.ok
           /\ reads = 1
           /\ contents = file.text

\* C6 witness: run has returned the error of a failed read of a file whose
\* path and query are not empty.
C6_Witness ==
    /\ pc = "done"
    /\ file = ReadFails("InvalidData")
    /\ config.file_path # <<>>
    /\ config.query # <<>>
    /\ run_ret = "InvalidData"
    /\ reads = 1

\* C7: when the read succeeds, run prints exactly the sequence returned by
\* search_case_insensitive(query, contents) if ignore_case is true and by
\* search(query, contents) if it is false, one record per line, in order and
\* unmodified, invokes that function once, and returns success, also when no
\* line matches.
C7_RunEmitsSelected ==
    (pc = "done" /\ file.ok) =>
        /\ run_ret = "Ok"
        /\ config.ignore_case =>
               /\ stdout = search_case_insensitive(config.query, file.text)
               /\ calls = <<"search_case_insensitive">>
        /\ ~config.ignore_case =>
               /\ stdout = search(config.query, file.text)
               /\ calls = <<"search">>

\* C7 witness: ignore_case is true, run succeeded after printing two lines
\* that the case-sensitive search would not have returned.
C7_Witness ==
    /\ pc = "done"
    /\ file.ok
    /\ config.ignore_case
    /\ run_ret = "Ok"
    /\ Len(stdout) = 2
    /\ search(config.query, file.text) = <<>>

====
